---- MODULE Spec2Model ----
(***************************************************************************)
(* Model of app.py: a Flask application with two routes, "/" (hello) and   *)
(* "/health" (health), served by app.run(host, port, debug=False).         *)
(*                                                                         *)
(* The state is the application's URL map, the operating system's hostname *)
(* (read by socket.gethostname()), and, for every request being handled,   *)
(* the position of its handler, the handler's local variable `hostname`    *)
(* and the response written so far.  Requests are handled concurrently,    *)
(* one thread per request.  Routing, the 404/405 aborts, the automatic     *)
(* OPTIONS answer and the 500 answer to an unhandled exception are the     *)
(* framework behaviour that Flask(__name__) and @app.route(...) select.    *)
(***************************************************************************)
EXTENDS Naturals, Sequences, FiniteSets, TLC

\* ------------------------------------------------------------------ bounds
NThreads == 2

Threads == 1..NThreads

\* Names the operating system may carry.
Hostnames == {"node-7", "node-8"}

\* Request methods and paths drawn by the clients.
Methods == {"GET", "HEAD", "OPTIONS", "POST", "PUT", "DELETE"}

Paths == {"/", "/health", "/other"}

VARIABLES
    url_map,      \* app.url_map: the rules registered by @app.route
    running,      \* app.run() is serving (the process is alive)
    osHostname,   \* the operating system's current hostname
    lookupWorks,  \* whether socket.gethostname() succeeds right now
    pc,           \* per thread: position of the request it handles
    req,          \* per thread: the request (method, path)
    hostname,     \* per thread: hello()'s local variable `hostname`
    sent,         \* per thread: the responses written for the request
    lookedUp,     \* history: OS state read by the request's gethostname()
    lookups,      \* history: number of gethostname() calls of the request
    failed,       \* history: a 500 or a 404 has already been answered
    servedAfter   \* history: paths whose GET was answered 200 after that

vars == <<url_map, running, osHostname, lookupWorks,
          pc, req, hostname, sent, lookedUp, lookups, failed,
          servedAfter>>

NoRequest == [method |-> "none", path |-> "none"]

NoHostname == "unset"

NoLookup == [name |-> "unset", ok |-> FALSE]

\* ------------------------------------------------------------ the program

\* A response: status code and the members of the JSON object in its body
\* (no members: the body is not a JSON object / is empty).
Response(status, json) == [status |-> status, json |-> json]

\* jsonify(dict): a 200 response whose body is the JSON object with one
\* member per key of the dict.
jsonify(d) == Response(200, {<<k, d[k]>> : k \in DOMAIN d})

\* Methods of a rule registered without a methods list.
DefaultMethods_all == Methods

DefaultMethods == {"GET", "HEAD", "OPTIONS"}

\* @app.route(rule) on a view function named endpoint.
route(rule, endpoint) ==
    [rule |-> rule, endpoint |-> endpoint, methods |-> DefaultMethods]

\* A static rule matches exactly its own path.
MatchRule_any(r, path) == TRUE

MatchRule(r, path) == r.rule = path

\* URL dispatch of one request against the map.
dispatch(map, m, p) ==
    LET matched == {r \in map : MatchRule(r, p)}
        allowed == {r \in matched : m \in r.methods}
    IN  IF matched = {}
        THEN [kind |-> "abort", code |-> 404, endpoint |-> "none"]
        ELSE IF allowed = {}
        THEN [kind |-> "abort", code |-> 405, endpoint |-> "none"]
        ELSE IF m = "OPTIONS"
        THEN [kind |-> "options", code |-> 200, endpoint |-> "none"]
        ELSE [kind |-> "view", code |-> 0,
              endpoint |-> (CHOOSE r \in allowed : TRUE).endpoint]

\* socket.gethostname(): the current OS name, or an OSError.
gethostname_fixed(os, ok) ==
    [name |-> IF ok THEN "node-7" ELSE NoHostname, ok |-> ok]

gethostname(os, ok) == [name |-> IF ok THEN os ELSE NoHostname, ok |-> ok]

\* The dict hello() returns (lines 10-14).
GreetingDict_noversion(h) ==
    [message |-> "Hello from Docker Swarm!", hostname |-> h]

GreetingDict_echo(h) ==
    [message |-> h, hostname |-> h, version |-> "1.0.0"]

GreetingDict(h) ==
    [message |-> "Hello from Docker Swarm!", hostname |-> h,
     version |-> "1.0.0"]

\* The dict health() returns (line 18).
HealthDict_ok == [status |-> "ok"]

HealthDict == [status |-> "healthy"]

\* What goes on the wire: a HEAD request gets the headers only.
OnWire(method, resp) ==
    IF method = "HEAD" THEN Response(resp.status, {}) ELSE resp

\* Thread t writes the response to its request (of the given method) and
\* finishes.
Reply(t, method, resp) ==
    /\ sent' = [sent EXCEPT ![t] = Append(@, OnWire(method, resp))]
    /\ pc' = [pc EXCEPT ![t] = "done"]
    /\ failed' = (failed \/ resp.status \in {404, 500})
    /\ servedAfter' = IF failed /\ method = "GET" /\ resp.status = 200
                      THEN servedAfter \cup {req[t].path}
                      ELSE servedAfter

\* A client's request is accepted on a free thread and dispatched.
Request(t, m, p) ==
    /\ running
    /\ pc[t] = "idle"
    /\ req' = [req EXCEPT ![t] = [method |-> m, path |-> p]]
    /\ LET d == dispatch(url_map, m, p)
       IN  IF d.kind = "view"
           THEN /\ pc' = [pc EXCEPT ![t] =
                            IF d.endpoint = "hello" THEN "hello_9"
                                                    ELSE "health_18"]
                /\ UNCHANGED <<sent, failed, servedAfter>>
           ELSE Reply(t, m, Response(d.code, {}))
    /\ UNCHANGED <<url_map, running, osHostname, lookupWorks,
                   hostname, lookedUp, lookups>>

\* An exception leaves the view function: the framework answers 500.
handle_exception_unregister(t) ==
    /\ Reply(t, req[t].method, Response(500, {}))
    /\ url_map' = {r \in url_map : r.endpoint # "hello"}
    /\ UNCHANGED <<running, hostname>>

handle_exception_crash(t) ==
    /\ Reply(t, req[t].method, Response(500, {}))
    /\ running' = FALSE
    /\ UNCHANGED <<url_map, hostname>>

handle_exception(t) ==
    /\ Reply(t, req[t].method, Response(500, {}))
    /\ UNCHANGED <<url_map, running, hostname>>

\* hello(), line 9: hostname = socket.gethostname()
hello_9_catch(t) ==
    /\ running
    /\ pc[t] = "hello_9"
    /\ lookedUp' = [lookedUp EXCEPT ![t] =
                        [name |-> IF lookupWorks THEN osHostname ELSE NoHostname,
                         ok |-> lookupWorks]]
    /\ lookups' = [lookups EXCEPT ![t] = @ + 1]
    /\ LET h == gethostname(osHostname, lookupWorks)
       IN  /\ hostname' = [hostname EXCEPT ![t] =
                             IF h.ok THEN h.name ELSE "unknown"]
           /\ pc' = [pc EXCEPT ![t] = "hello_10"]
           /\ UNCHANGED <<url_map, running, sent, failed, servedAfter>>
    /\ UNCHANGED <<osHostname, lookupWorks, req>>

hello_9(t) ==
    /\ running
    /\ pc[t] = "hello_9"
    /\ lookedUp' = [lookedUp EXCEPT ![t] =
                        [name |-> IF lookupWorks THEN osHostname ELSE NoHostname,
                         ok |-> lookupWorks]]
    /\ lookups' = [lookups EXCEPT ![t] = @ + 1]
    /\ LET h == gethostname(osHostname, lookupWorks)
       IN  IF h.ok
           THEN /\ hostname' = [hostname EXCEPT ![t] = h.name]
                /\ pc' = [pc EXCEPT ![t] = "hello_10"]
                /\ UNCHANGED <<url_map, running, sent, failed, servedAfter>>
           ELSE handle_exception(t)
    /\ UNCHANGED <<osHostname, lookupWorks, req>>

\* hello(), lines 10-14: return jsonify({...})
hello_10_reread(t) ==
    /\ running
    /\ pc[t] = "hello_10"
    /\ Reply(t, req[t].method, jsonify(GreetingDict(osHostname)))
    /\ UNCHANGED <<url_map, running, osHostname, lookupWorks,
                   req, hostname, lookedUp, lookups>>

hello_10(t) ==
    /\ running
    /\ pc[t] = "hello_10"
    /\ Reply(t, req[t].method, jsonify(GreetingDict(hostname[t])))
    /\ UNCHANGED <<url_map, running, osHostname, lookupWorks,
                   req, hostname, lookedUp, lookups>>

\* health(), line 18: return jsonify({'status': 'healthy'})
health_18(t) ==
    /\ running
    /\ pc[t] = "health_18"
    /\ Reply(t, req[t].method, jsonify(HealthDict))
    /\ UNCHANGED <<url_map, running, osHostname, lookupWorks,
                   req, hostname, lookedUp, lookups>>

\* The response has been delivered; the thread is free for a new request.
Close(t) ==
    /\ running
    /\ pc[t] = "done"
    /\ pc' = [pc EXCEPT ![t] = "idle"]
    /\ req' = [req EXCEPT ![t] = NoRequest]
    /\ hostname' = [hostname EXCEPT ![t] = NoHostname]
    /\ sent' = [sent EXCEPT ![t] = <<>>]
    /\ lookedUp' = [lookedUp EXCEPT ![t] = NoLookup]
    /\ lookups' = [lookups EXCEPT ![t] = 0]
    /\ UNCHANGED <<url_map, running, osHostname, lookupWorks, failed,
                   servedAfter>>

\* ------------------------------------------------------- the environment

\* The host is renamed.
Rename(h) ==
    /\ h # osHostname
    /\ osHostname' = h
    /\ UNCHANGED <<url_map, running, lookupWorks,
                   pc, req, hostname, sent, lookedUp, lookups, failed,
                   servedAfter>>

\* The hostname lookup starts or stops failing.
LookupFlip ==
    /\ lookupWorks' = ~lookupWorks
    /\ UNCHANGED <<url_map, running, osHostname,
                   pc, req, hostname, sent, lookedUp, lookups, failed,
                   servedAfter>>

\* The host environment terminates the process: its threads end with it.
Terminate ==
    /\ running
    /\ running' = FALSE
    /\ pc' = [t \in Threads |-> "idle"]
    /\ req' = [t \in Threads |-> NoRequest]
    /\ hostname' = [t \in Threads |-> NoHostname]
    /\ sent' = [t \in Threads |-> <<>>]
    /\ lookedUp' = [t \in Threads |-> NoLookup]
    /\ lookups' = [t \in Threads |-> 0]
    /\ UNCHANGED <<url_map, osHostname, lookupWorks, failed, servedAfter>>

\* ------------------------------------------------------ the specification

Init ==
    /\ url_map = {route("/", "hello"), route("/health", "health")}
    /\ running = TRUE
    /\ osHostname \in Hostnames
    /\ lookupWorks \in BOOLEAN
    /\ pc = [t \in Threads |-> "idle"]
    /\ req = [t \in Threads |-> NoRequest]
    /\ hostname = [t \in Threads |-> NoHostname]
    /\ sent = [t \in Threads |-> <<>>]
    /\ lookedUp = [t \in Threads |-> NoLookup]
    /\ lookups = [t \in Threads |-> 0]
    /\ failed = FALSE
    /\ servedAfter = {}

Handler(t) == hello_9(t) \/ hello_10(t) \/ health_18(t)

Next ==
    \/ \E t \in Threads, m \in Methods, p \in Paths : Request(t, m, p)
    \/ \E t \in Threads : hello_9(t)
    \/ \E t \in Threads : hello_10(t)
    \/ \E t \in Threads : health_18(t)
    \/ \E t \in Threads : Close(t)
    \/ \E h \in Hostnames : Rename(h)
    \/ LookupFlip
    \/ Terminate

Spec == Init /\ [][Next]_vars

\* Every thread that is inside a handler is eventually scheduled.
FairSpec == Spec /\ \A t \in Threads : WF_vars(Handler(t))

\* ------------------------------------------------------------- the claims

Done(t) == pc[t] = "done"

IsGet(t, p) == req[t] = [method |-> "GET", path |-> p]

Status(t) == sent[t][1].status

Json(t) == sent[t][1].json

Keys(json) == {m[1] : m \in json}

Values(json, k) == {m[2] : m \in {n \in json : n[1] = k}}

GreetingKeys == {"message", "hostname", "version"}

HealthBody == {<<"status", "healthy">>}

\* The request's gethostname() call has run, and succeeded / failed.
LookupOk(t) == lookups[t] = 1 /\ lookedUp[t].ok

LookupFailed(t) == lookups[t] = 1 /\ ~lookedUp[t].ok

\* C1 as stated: every GET / is answered 200 with a JSON object that has
\* exactly the keys message, hostname and version.
C1_AsStated ==
    \A t \in Threads :
        Done(t) /\ IsGet(t, "/") =>
            /\ Len(sent[t]) = 1
            /\ Status(t) = 200
            /\ Keys(Json(t)) = GreetingKeys
            /\ Cardinality(Json(t)) = 3

\* C1 amended: every GET / whose hostname lookup succeeds is answered 200
\* with a JSON object that has exactly the keys message, hostname and
\* version, each once.
C1_GreetingShape ==
    \A t \in Threads :
        Done(t) /\ IsGet(t, "/") /\ LookupOk(t) =>
            /\ Len(sent[t]) = 1
            /\ Status(t) = 200
            /\ Keys(Json(t)) = GreetingKeys
            /\ Cardinality(Json(t)) = 3

C1_Witness ==
    \E t \in Threads :
        /\ Done(t) /\ IsGet(t, "/") /\ LookupOk(t)
        /\ Status(t) = 200
        /\ Keys(Json(t)) = GreetingKeys

\* C2: every GET /health is answered 200 with the body {"status":"healthy"},
\* whatever the hostname, the state of the lookup and the earlier requests.
C2_HealthAlways ==
    \A t \in Threads :
        Done(t) /\ IsGet(t, "/health") =>
            sent[t] = <<Response(200, HealthBody)>>

C2_Witness ==
    \E t \in Threads :
        /\ Done(t) /\ IsGet(t, "/health")
        /\ failed
        /\ ~lookupWorks
        /\ sent[t] = <<Response(200, HealthBody)>>

\* C3: a GET / performs exactly one hostname lookup, and the hostname member
\* of its 200 response is the OS name at the time of that lookup.
C3_HostnameAtLookup ==
    \A t \in Threads :
        Done(t) /\ IsGet(t, "/") =>
            /\ lookups[t] = 1
            /\ Status(t) = 200 => Values(Json(t), "hostname") = {lookedUp[t].name}

\* Two answered requests to / carry different names: the host was renamed
\* between their lookups and the second one did not reuse the first name.
C3_Witness ==
    \E t, u \in Threads :
        /\ Done(t) /\ IsGet(t, "/") /\ Status(t) = 200
        /\ Done(u) /\ IsGet(u, "/") /\ Status(u) = 200
        /\ Values(Json(t), "hostname") = {"node-7"}
        /\ Values(Json(u), "hostname") = {"node-8"}

\* C4: in every greeting (200 response to GET /) message is "Hello from
\* Docker Swarm!" and version is "1.0.0".
C4_Literals ==
    \A t \in Threads :
        Done(t) /\ IsGet(t, "/") /\ Status(t) = 200 =>
            /\ Values(Json(t), "message") = {"Hello from Docker Swarm!"}
            /\ Values(Json(t), "version") = {"1.0.0"}

C4_Witness ==
    \E t \in Threads :
        /\ Done(t) /\ IsGet(t, "/") /\ Status(t) = 200
        /\ failed
        /\ Values(Json(t), "hostname") = {"node-8"}
        /\ Values(Json(t), "message") = {"Hello from Docker Swarm!"}

\* C5: a request to a path other than / and /health is answered 404, with
\* neither the greeting nor the health body.
C5_NotFound ==
    \A t \in Threads :
        pc[t] # "idle" /\ req[t].path \notin {"/", "/health"} =>
            /\ Done(t)
            /\ sent[t] = <<Response(404, {})>>

C5_Witness ==
    \E t \in Threads :
        /\ Done(t) /\ IsGet(t, "/other")
        /\ Status(t) = 404

\* C6: a GET / whose hostname lookup fails is answered 500 and nothing else;
\* the handler never goes on to build a greeting after a failed lookup.
C6_LookupFailure ==
    \A t \in Threads :
        /\ Done(t) /\ IsGet(t, "/") /\ LookupFailed(t) =>
               sent[t] = <<Response(500, {})>>
        /\ pc[t] = "hello_10" => LookupOk(t) /\ hostname[t] = lookedUp[t].name

C6_Witness ==
    \E t \in Threads :
        /\ Done(t) /\ IsGet(t, "/") /\ LookupFailed(t)
        /\ Status(t) = 500

\* The response to request r handled alone, with the OS in state os when
\* (and if) the handler looks the hostname up.
Alone(r, os) ==
    LET d == dispatch(url_map, r.method, r.path)
        h == gethostname(os.name, os.ok)
        full == IF d.kind # "view" THEN Response(d.code, {})
                ELSE IF d.endpoint = "health" THEN jsonify(HealthDict)
                ELSE IF h.ok THEN jsonify(GreetingDict(h.name))
                ELSE Response(500, {})
    IN  OnWire(r.method, full)

InHandler(t) == pc[t] \in {"hello_9", "hello_10", "health_18"}

\* A step of thread t's handler changes nothing another request reads.
HandlerFrame(t) ==
    InHandler(t) /\ pc'[t] # pc[t] /\ pc'[t] # "idle" =>
        /\ UNCHANGED <<url_map, running, osHostname, lookupWorks>>
        /\ \A u \in Threads \ {t} :
               /\ pc'[u] = pc[u]
               /\ req'[u] = req[u]
               /\ hostname'[u] = hostname[u]
               /\ sent'[u] = sent[u]

\* C7: under every interleaving each response equals the response to the
\* same request handled alone with the OS state at its lookup, and no
\* handler step changes state that another request reads.
C7_Isolation ==
    /\ [](\A t \in Threads : Done(t) => sent[t] = <<Alone(req[t], lookedUp[t])>>)
    /\ [][\A t \in Threads : HandlerFrame(t)]_vars

\* Two overlapping requests to /, answered with different names.
C7_Witness ==
    \E t, u \in Threads :
        /\ t # u
        /\ Done(t) /\ IsGet(t, "/") /\ Status(t) = 200
        /\ lookedUp[t].name # osHostname
        /\ pc[u] = "hello_10"
        /\ hostname[u] = osHostname

\* A step in which thread t answers its request.
AnswerStep(t) == Len(sent[t]) = 0 /\ Len(sent'[t]) = 1

\* A step that answers 404 or 500.
FailureStep(t) == AnswerStep(t) /\ sent'[t][1].status \in {404, 500}

\* C8: after a 500 or a 404 has been answered the server serves as before:
\* every GET /health answered from then on gets 200 {"status":"healthy"},
\* every GET / answered from then on has performed its lookup and, when it
\* succeeded, gets 200 with the name looked up; and the failing step leaves
\* the URL map, the process and the OS state as they were.
C8_FailureLeavesServer ==
    [][\A t \in Threads :
        /\ failed /\ AnswerStep(t) /\ req'[t] = [method |-> "GET", path |-> "/health"] =>
               sent'[t] = <<Response(200, HealthBody)>>
        /\ failed /\ AnswerStep(t) /\ req'[t] = [method |-> "GET", path |-> "/"] =>
               /\ lookups'[t] = 1
               /\ lookedUp'[t].ok =>
                      sent'[t] = <<jsonify(GreetingDict(lookedUp'[t].name))>>
        /\ FailureStep(t) =>
               UNCHANGED <<url_map, running, osHostname, lookupWorks>>]_vars

\* After a failure both a GET / and a GET /health have been answered 200.
C8_Witness ==
    /\ running
    /\ failed
    /\ servedAfter = {"/", "/health"}

WriteMethods == {"POST", "PUT", "DELETE"}

\* C9: a POST, PUT or DELETE to / or /health is answered 405 with no body,
\* never enters a handler and never looks the hostname up.
C9_ReadOnlyMethods ==
    \A t \in Threads :
        req[t].method \in WriteMethods /\ req[t].path \in {"/", "/health"} =>
            /\ Done(t)
            /\ sent[t] = <<Response(405, {})>>
            /\ lookups[t] = 0

C9_Witness ==
    \E t, u \in Threads :
        /\ req[t] = [method |-> "POST", path |-> "/"]
        /\ Done(t) /\ Status(t) = 405 /\ lookups[t] = 0
        /\ req[u] = [method |-> "DELETE", path |-> "/health"]
        /\ Done(u) /\ Status(u) = 405

\* C10: the process stops serving only when terminated from outside; while
\* it runs a free thread accepts any request; no request gets more than one
\* response, an answered request has exactly one, with status 200, 404, 405
\* or 500; a handler is left only with the request answered (or by
\* termination); and every request that entered a handler eventually leaves
\* it, so every accepted request is eventually answered unless the process
\* is terminated first.
C10_ServesForever ==
    /\ [][running /\ ~running' => Terminate]_vars
    /\ [](\A t \in Threads :
            /\ Len(sent[t]) <= 1
            /\ Done(t) => Len(sent[t]) = 1 /\ Status(t) \in {200, 404, 405, 500}
            /\ InHandler(t) => Len(sent[t]) = 0
            /\ pc[t] # "idle" => Done(t) \/ InHandler(t)
            /\ running /\ pc[t] = "idle" =>
                   \A m \in Methods, p \in Paths : ENABLED Request(t, m, p))
    /\ [][\A t \in Threads :
            InHandler(t) /\ ~InHandler(t)' => Done(t)' \/ ~running']_vars
    /\ \A t \in Threads : []<>(~InHandler(t))

C10_Witness ==
    \E t \in Threads :
        /\ running
        /\ servedAfter # {}
        /\ Done(t) /\ Len(sent[t]) = 1 /\ Status(t) = 500

====
